---- MODULE Spec2Model ----
(***************************************************************************)
(* Review-quality scoring and reward aggregation of the validator:         *)
(* template/validator/llm_scorer.py (LLMReviewScorer, score_reviews_grouped)*)
(* and template/validator/forward.py (forward).                            *)
(*                                                                         *)
(* Fixed-point conventions (the code computes in IEEE doubles):            *)
(*   criteria          integer rubric points                               *)
(*   weights           hundredths      (0.20 is 20)                        *)
(*   confidence        tenths          (0.5 is 5, 1.0 is 10)               *)
(*   aggregate_score   points 0..100   (every term value*weight*20 is a    *)
(*                     multiple of 100 hundredths for integer criteria)    *)
(*   exp(-0.5*rank)    thousandths                                         *)
(*   raw reward        aggregate * decay * confidence, units of 1/10000    *)
(*   returned reward   thousandths     (1.0 is 1000)                       *)
(***************************************************************************)
EXTENDS Integers, Sequences, FiniteSets, TLC

VARIABLES
    cache,          \* cache_dir: cache key -> stored verdict record
    oracle_calls,   \* number of client.chat.completions.create invocations
    paper_metadata, \* paper_metadata.json as read by score_reviews_grouped
    pc,             \* position of forward()
    miner_uids,     \* forward: UIDs returned by get_random_uids, in query order
    responses,      \* forward: the synapses returned by the dendrite
    groups,         \* reviews_by_paper, in dict insertion order
    g,              \* index of the group the for loop is at
    j,              \* index of the review score_reviews_for_paper is at
    abstract,       \* context handed to score_reviews_for_paper for group g
    scores,         \* score_reviews_for_paper: verdicts of group g so far
    ranked,         \* ranked_indices of the group ranked last
    all_rewards,    \* the reward array (raw until normalised)
    log,            \* history: one record per score_review call
    handed,         \* history: (paper_id, context) per group evaluated
    update_call,    \* arguments forward passed to self.update_scores
    agg_in,         \* aggregator harness: raw oracle response object
    agg_out,        \* aggregator harness: outcome of _validate_and_aggregate
    rounds,         \* concurrent rounds: each round's score_review call
    io_call         \* storage-fault harness: the last score_review call

vars == <<cache, oracle_calls, paper_metadata, pc, miner_uids, responses,
          groups, g, j, abstract, scores, ranked, all_rewards, log, handed,
          update_call, agg_in, agg_out, rounds, io_call>>

(***************************************************************************)
(* Bounds of the model.                                                    *)
(***************************************************************************)
MaxResp == 3        \* largest number of miners queried in one forward()
NumUids == 3        \* size of the metagraph the UIDs are sampled from
MaxRaw  == 6        \* largest raw criterion value the oracle stub returns

(***************************************************************************)
(* Rubric constants.                                                       *)
(***************************************************************************)
CRITERIA ==
    <<"comprehension", "technical_depth", "specificity",
      "constructiveness", "evidence_based", "professionalism">>

CriteriaSet == {CRITERIA[i] : i \in 1..Len(CRITERIA)}

CRITERIA_WEIGHTS ==
    [comprehension    |-> 20,
     technical_depth  |-> 25,
     specificity      |-> 20,
     constructiveness |-> 15,
     evidence_based   |-> 15,
     professionalism  |-> 5]

(***************************************************************************)
(* JSON values of an oracle response field.  "absent" is a key that is not *)
(* in the dict.  A number carries its value; a numeric string carries the  *)
(* value float() parses from it.                                           *)
(***************************************************************************)
Absent    == [k |-> "absent", v |-> 0]
Null      == [k |-> "null",   v |-> 0]
BadStr    == [k |-> "str",    v |-> 0]
NaN       == [k |-> "nan",    v |-> 0]
Num(n)    == [k |-> "num",    v |-> n]
NumStr(n) == [k |-> "numstr", v |-> n]

Fields == CriteriaSet \cup {"confidence"}

\* float(x): None raises TypeError, a non-numeric string raises ValueError.
FloatRaises(x) == x.k \in {"null", "str"}

\* max(lo, min(hi, float(x))) as Python evaluates it: min and max keep their
\* first argument unless a later one compares strictly smaller / larger, and
\* every comparison with nan is False, so nan comes out as hi.
Clamp(lo, hi, x) ==
    LET m == IF x.k = "nan" THEN hi ELSE IF x.v < hi THEN x.v ELSE hi
    IN  IF m > lo THEN m ELSE lo

RECURSIVE SumWeighted(_, _)
SumWeighted(r, i) ==
    IF i > Len(CRITERIA) THEN 0
    ELSE r[CRITERIA[i]] * CRITERIA_WEIGHTS[CRITERIA[i]] * 20
         + SumWeighted(r, i + 1)

\* sum(result[c] * CRITERIA_WEIGHTS[c] * 20 for c in CRITERIA), in points.
Aggregate(crit) == SumWeighted(crit, 1) \div 100

\* A faulty aggregator, for sensitivity checks:
\* raw values are weighted without being clamped.
ValidateUnclamped(result) ==
    LET crit == [c \in CriteriaSet |-> result[c].v]
    IN  [raised  |-> FALSE,
         verdict |-> [has_criteria    |-> TRUE,
                      crit            |-> crit,
                      confidence      |-> IF result["confidence"].k = "absent"
                                          THEN 5 ELSE result["confidence"].v,
                      aggregate_score |-> Aggregate(crit),
                      error           |-> ""]]

NoVerdict ==
    [has_criteria |-> FALSE, crit |-> [c \in CriteriaSet |-> 0],
     confidence |-> 0, aggregate_score |-> 0, error |-> "<none>"]

\* LLMReviewScorer._validate_and_aggregate.  raised is TRUE when a float()
\* conversion raises; the verdict is then never produced.
_validate_and_aggregate(result) ==
    LET raises == \E f \in Fields :
                      result[f].k # "absent" /\ FloatRaises(result[f])
        crit   == [c \in CriteriaSet |->
                      IF result[c].k = "absent" THEN 0
                      ELSE Clamp(0, 5, result[c])]
        conf   == IF result["confidence"].k = "absent" THEN 5
                  ELSE Clamp(0, 10, result["confidence"])
    IN  IF raises
        THEN [raised |-> TRUE, verdict |-> NoVerdict]
        ELSE [raised  |-> FALSE,
              verdict |-> [has_criteria    |-> TRUE,
                           crit            |-> crit,
                           confidence      |-> conf,
                           aggregate_score |-> Aggregate(crit),
                           error           |-> ""]]

(***************************************************************************)
(* Cache store: one JSON file per key under cache_dir.                     *)
(***************************************************************************)
MODEL == "gpt-4.1-mini"

\* hashlib.sha256(...).hexdigest(), taken as collision free on the content.
Sha256(content) == "sha256:" \o content

\* LLMReviewScorer._cache_key
_cache_key(paper_abstract, review_text) ==
    Sha256(MODEL \o "|" \o paper_abstract \o "|" \o review_text)

\* json.dump / json.load of a verdict.  The record holds only JSON numbers
\* and strings under string keys, which Python's json writes and reads back
\* unchanged (repr round trip of floats, ints stay ints).
JsonDump(score_data) == [format |-> "json", doc |-> score_data]
JsonLoad(file) == file.doc

\* A faulty reader, for sensitivity checks:
\* every lookup reports the file as missing.
GetCachedNever(c, cache_key) == [found |-> FALSE, value |-> NoVerdict]

\* LLMReviewScorer._get_cached: None when the file does not exist.
_get_cached(c, cache_key) ==
    IF cache_key \in DOMAIN c
    THEN [found |-> TRUE, value |-> JsonLoad(c[cache_key])]
    ELSE [found |-> FALSE, value |-> NoVerdict]

\* LLMReviewScorer._save_cache: open(cache_file, "w") replaces the file.
_save_cache(c, cache_key, score_data) ==
    (cache_key :> JsonDump(score_data)) @@ c

(***************************************************************************)
(* The oracle (client.chat.completions.create followed by json.loads).     *)
(* An outcome is what one invocation produces: the call raises (network    *)
(* error, timeout), the content is not JSON, or a JSON object.  The prompt *)
(* (context cut to 1000 characters, review to 3000) is read by the oracle  *)
(* alone, and the oracle is free to answer anything to any prompt.         *)
(***************************************************************************)
Uniform(n, conf) ==
    [f \in Fields |-> IF f = "confidence" THEN conf ELSE Num(n)]

OracleRaises      == [kind |-> "raise",       result |-> Uniform(0, Absent)]
OracleUnparseable == [kind |-> "unparseable", result |-> Uniform(0, Absent)]
OracleJson(r)     == [kind |-> "json",        result |-> r]

\* The answers the oracle stub can give in the pipeline model: aggregates
\* 80, 60 and 90 at confidence 1.0, an incomplete out-of-range answer, and
\* an answer with a null criterion.
R80      == Uniform(4, Num(10))
R60      == Uniform(3, Num(10))
R90      == [Uniform(5, Num(10)) EXCEPT !["technical_depth"] = Num(3)]
RPartial == [f \in Fields |->
                IF f = "comprehension" THEN Num(MaxRaw) ELSE Absent]
RNull    == [R80 EXCEPT !["specificity"] = Null]

OracleOutcomes ==
    {OracleRaises, OracleUnparseable}
    \cup {OracleJson(r) : r \in {R80, R60, R90, RPartial, RNull}}

\* The except branch of score_review: str(e) names the failure.
Fallback(err) ==
    [has_criteria |-> TRUE, crit |-> [c \in CriteriaSet |-> 0],
     confidence |-> 0, aggregate_score |-> 0, error |-> err]

\* What the try block of score_review does with one oracle outcome.
TryOracle(outcome) ==
    IF outcome.kind = "raise" THEN [ok |-> FALSE, v |-> Fallback("APIError")]
    ELSE IF outcome.kind = "unparseable"
    THEN [ok |-> FALSE, v |-> Fallback("JSONDecodeError")]
    ELSE LET va == _validate_and_aggregate(outcome.result)
         IN  IF va.raised
             THEN [ok |-> FALSE, v |-> Fallback("TypeError")]
             ELSE [ok |-> TRUE, v |-> va.verdict]

\* A faulty score_review, for sensitivity checks:
\* the fallback verdict is stored like a judgment.
ScoreReviewCachingFallback(c, paper_abstract, review_text, outcome) ==
    LET cache_key == _cache_key(paper_abstract, review_text)
        cached    == _get_cached(c, cache_key)
        t         == TryOracle(outcome)
    IN  IF cached.found
        THEN [ret |-> cached.value, cache |-> c, invoked |-> FALSE, hit |-> TRUE]
        ELSE [ret |-> t.v, cache |-> _save_cache(c, cache_key, t.v),
              invoked |-> TRUE, hit |-> FALSE]

\* LLMReviewScorer.score_review with use_cache = True.  Returns the verdict,
\* the cache afterwards, and whether the oracle was invoked.
score_review(c, paper_abstract, review_text, outcome) ==
    LET cache_key == _cache_key(paper_abstract, review_text)
        cached    == _get_cached(c, cache_key)
        t         == TryOracle(outcome)
    IN  IF cached.found
        THEN [ret |-> cached.value, cache |-> c, invoked |-> FALSE, hit |-> TRUE]
        ELSE [ret     |-> t.v,
              cache   |-> IF t.ok THEN _save_cache(c, cache_key, t.v) ELSE c,
              invoked |-> TRUE,
              hit     |-> FALSE]

(***************************************************************************)
(* Python values.                                                          *)
(***************************************************************************)
NoneVal   == "<None>"      \* None in a field that otherwise holds a string
KeyAbsent == "<absent>"    \* a key that is not in a dict
NoneScore == -1            \* final_score = None (rewards are never negative)

\* dict.get(key, default)
Get(value, default) == IF value = KeyAbsent THEN default ELSE value

\* Python truthiness of an Optional[str]
Falsy(s) == s = NoneVal \/ s = ""

Papers == {"p1", "p2"}
PaperSeq == <<"p1", "p2">>
TextSeq == <<"t1", "t2", "t3">>
Texts == {TextSeq[i] : i \in 1..Len(TextSeq)}

(***************************************************************************)
(* ReviewDataPreprocessor.process: paper_metadata.json holds, per paper,   *)
(* the title and abstract of the first scraped review of that paper.       *)
(* The scraped corpus covers paper p1 only: p2 is a paper the validator    *)
(* holds no metadata for.                                                  *)
(***************************************************************************)
MaxCorpus == 2

ScrapedReviews ==
    {[paper_id |-> p, title |-> ta[1], abstract |-> ta[2]] :
        p \in {"p1"},
        ta \in {<<"T", "A">>, <<"T", KeyAbsent>>, <<"", "">>,
                <<KeyAbsent, KeyAbsent>>}}

Corpora == UNION {[1..n -> ScrapedReviews] : n \in 1..MaxCorpus}

FirstOf(reviews, pid) ==
    reviews[CHOOSE i \in 1..Len(reviews) :
                /\ reviews[i].paper_id = pid
                /\ \A k \in 1..(i - 1) : reviews[k].paper_id # pid]

process(reviews) ==
    [pid \in {reviews[i].paper_id : i \in 1..Len(reviews)} |->
        [paper_id |-> pid,
         title    |-> Get(FirstOf(reviews, pid).title, ""),
         abstract |-> Get(FirstOf(reviews, pid).abstract, "")]]

NoMetadataFile == [exists |-> FALSE, data |-> [p \in {} |-> 0]]

MetadataFiles ==
    {NoMetadataFile} \cup {[exists |-> TRUE, data |-> process(c)] : c \in Corpora}

\* score_reviews_grouped: json.load of the metadata file, or {} without it.
LoadMetadata(file) == IF file.exists THEN file.data ELSE [p \in {} |-> 0]

\* The missing-context policy as the design states it: the stored abstract,
\* else the title, else the placeholder, each only when present and non-empty.
ContextPolicy(md, paper_id) ==
    LET paper_info == IF paper_id \in DOMAIN md THEN md[paper_id]
                      ELSE [title |-> KeyAbsent, abstract |-> KeyAbsent]
        a == Get(paper_info.abstract, "")
        t == Get(paper_info.title, "")
    IN  IF ~Falsy(a) THEN a ELSE IF ~Falsy(t) THEN t ELSE "Unknown paper"

\* score_reviews_grouped: the context of one item.
ResolveContext(md, paper_id) ==
    LET paper_info == IF paper_id \in DOMAIN md THEN md[paper_id]
                      ELSE [title |-> KeyAbsent, abstract |-> KeyAbsent]
        a == Get(paper_info.abstract, "")
    IN  IF Falsy(a) THEN Get(paper_info.title, "Unknown paper") ELSE a

(***************************************************************************)
(* score_reviews_grouped: grouping by paper_id, in dict insertion order.   *)
(* miner_uid is the position of the response in the input list (0-based).  *)
(***************************************************************************)
GroupIndex(acc, pid) ==
    IF \E k \in 1..Len(acc) : acc[k].paper_id = pid
    THEN CHOOSE k \in 1..Len(acc) : acc[k].paper_id = pid
    ELSE 0

RECURSIVE GroupFrom(_, _, _)
GroupFrom(resp, i, acc) ==
    IF i > Len(resp) THEN acc
    ELSE IF resp[i].paper_id = NoneVal THEN GroupFrom(resp, i + 1, acc)
    ELSE LET rev == [miner_uid |-> i - 1, review_text |-> resp[i].review_text]
             k   == GroupIndex(acc, resp[i].paper_id)
         IN  IF k = 0
             THEN GroupFrom(resp, i + 1,
                      Append(acc, [paper_id |-> resp[i].paper_id,
                                   reviews  |-> <<rev>>]))
             ELSE GroupFrom(resp, i + 1,
                      [acc EXCEPT ![k].reviews = Append(@, rev)])

reviews_by_paper(resp) == GroupFrom(resp, 1, <<>>)

(***************************************************************************)
(* Ranking, rank decay and normalisation.                                  *)
(***************************************************************************)
Perms(n) ==
    {p \in [1..n -> 1..n] : \A a, b \in 1..n : a # b => p[a] # p[b]}

\* np.argsort(values) with the default kind ("quicksort", not stable): some
\* index order that sorts the values ascending; the order among equal values
\* depends on the numpy build.
Argsort(values) ==
    {p \in Perms(Len(values)) :
        \A i \in 1..(Len(values) - 1) : values[p[i]] <= values[p[i + 1]]}

Reverse(s) == [i \in 1..Len(s) |-> s[Len(s) + 1 - i]]

\* A faulty ranking, for sensitivity checks:
\* the [::-1] is missing, so the order is ascending.
RankedAscending(order) == order

\* ranked_indices = np.argsort(...)[::-1]
RankedIndices(order) == Reverse(order)

\* np.exp(-0.5 * rank) in thousandths; exp(-0.0) is exactly 1.
ExpTable == <<1000, 607, 368, 223, 135, 82, 50, 30>>
ExpNegHalf(rank) == ExpTable[rank + 1]

\* A faulty reward, for sensitivity checks:
\* the rank is counted from 1.
RewardRankFromOne(base_score, rank, confidence) ==
    base_score * ExpNegHalf(rank + 1) * confidence

\* reward = base_score * np.exp(-0.5 * rank) * confidence
Reward(base_score, rank, confidence) ==
    base_score * ExpNegHalf(rank) * confidence

SeqMax(s) == CHOOSE m \in {s[i] : i \in 1..Len(s)} :
                 \A i \in 1..Len(s) : s[i] <= m

SeqSum(s) ==
    LET RECURSIVE S(_)
        S(i) == IF i > Len(s) THEN 0 ELSE s[i] + S(i + 1)
    IN  S(1)

\* A faulty normaliser, for sensitivity checks:
\* scales by the total instead of the maximum.
NormalizeBySum(rewards) ==
    IF SeqMax(rewards) > 0
    THEN [i \in 1..Len(rewards) |-> (rewards[i] * 1000) \div SeqSum(rewards)]
    ELSE rewards

\* if all_rewards.max() > 0: all_rewards = all_rewards / all_rewards.max()
Normalize(rewards) ==
    IF SeqMax(rewards) > 0
    THEN [i \in 1..Len(rewards) |-> (rewards[i] * 1000) \div SeqMax(rewards)]
    ELSE rewards

\* list(range(len(responses)))
RangeList(n) == [i \in 1..n |-> i - 1]

EmptyVerdict ==
    [has_criteria |-> FALSE, crit |-> [c \in CriteriaSet |-> 0],
     confidence |-> 0, aggregate_score |-> 0, error |-> "Empty review"]

\* A faulty loop body, for sensitivity checks:
\* the empty-text short circuit is missing.
ScoreOneAlways(c, paper_abstract, review, outcome) ==
    LET text == IF review.review_text = NoneVal THEN "" ELSE review.review_text
        r    == score_review(c, paper_abstract, text, outcome)
    IN  [called |-> TRUE, ret |-> r.ret, cache |-> r.cache,
         invoked |-> r.invoked, hit |-> r.hit]

\* One iteration of the loop of score_reviews_for_paper.  called tells
\* whether score_review was called at all.
ScoreOne(c, paper_abstract, review, outcome) ==
    IF Falsy(review.review_text)
    THEN [called |-> FALSE, ret |-> EmptyVerdict, cache |-> c,
          invoked |-> FALSE, hit |-> FALSE]
    ELSE LET r == score_review(c, paper_abstract, review.review_text, outcome)
         IN  [called |-> TRUE, ret |-> r.ret, cache |-> r.cache,
              invoked |-> r.invoked, hit |-> r.hit]

(***************************************************************************)
(* Inputs of one forward(): the sampled UIDs and the synapses that come    *)
(* back.  A miner without a review returns the synapse untouched (paper_id *)
(* and review_text None).  Text names are interchangeable, so lists are    *)
(* taken up to renaming: t2 appears only after t1, t3 only after t2.  The  *)
(* unknown paper p2 appears only in lists that also hold p1.               *)
(***************************************************************************)
Synapse(p, t) ==
    [paper_id |-> p, review_text |-> t,
     review_score |-> NoVerdict, final_score |-> NoneScore]

ResponseVals ==
    {Synapse(NoneVal, NoneVal)}
    \cup {Synapse(p, t) : p \in Papers, t \in {NoneVal, ""} \cup Texts}

InOrder(r, names, field) ==
    \A i \in 1..Len(r), k \in 2..Len(names) :
        r[i][field] = names[k] =>
            \E h \in 1..(i - 1) : r[h][field] = names[k - 1]

ResponseLists(n) ==
    {r \in [1..n -> ResponseVals] :
        InOrder(r, PaperSeq, "paper_id") /\ InOrder(r, TextSeq, "review_text")}

Min(a, b) == IF a < b THEN a ELSE b

\* get_random_uids(self, k): k distinct UIDs of the metagraph.  The samples
\* drawn are the k lowest and the k highest UIDs, in ascending order.
UidSamples ==
    UNION {{[i \in 1..n |-> o + i - 1] : o \in {0, NumUids - n}} :
           n \in 1..Min(MaxResp, NumUids)}

Valid(resp) == Cardinality({i \in 1..Len(resp) : resp[i].paper_id # NoneVal})

Zeros(n) == [i \in 1..n |-> 0]

NoUpdate == [called |-> FALSE, rewards |-> <<>>, uids |-> <<>>]
AggIdle  == [done |-> FALSE, raised |-> FALSE, verdict |-> NoVerdict]
NoCall   ==
    [done |-> FALSE, review_text |-> "", outcome |-> OracleRaises,
     read |-> "ok", write |-> "ok", existed |-> FALSE, raised |-> FALSE,
     ret |-> NoVerdict]

\* A cache directory an earlier round left behind: one stored judgment, for
\* review t1 of the paper whose abstract is "A".
WarmCache ==
    _save_cache(<<>>, _cache_key("A", "t1"), _validate_and_aggregate(R80).verdict)

\* The cache directories a scorer can find for a metadata file: empty, or
\* warm when the file holds the abstract the stored record was keyed with.
CacheDirs(file) ==
    {<<>>} \cup (IF \E p \in DOMAIN file.data : file.data[p].abstract = "A"
                THEN {WarmCache} ELSE {})

Init ==
    /\ paper_metadata \in MetadataFiles
    /\ cache \in CacheDirs(paper_metadata)
    /\ oracle_calls = 0
    /\ pc = "start"
    /\ miner_uids = <<>>
    /\ responses = <<>>
    /\ groups = <<>>
    /\ g = 0
    /\ j = 0
    /\ abstract = ""
    /\ scores = <<>>
    /\ ranked = <<>>
    /\ all_rewards = <<>>
    /\ log = <<>>
    /\ handed = <<>>
    /\ update_call = NoUpdate
    /\ agg_in = Uniform(0, Absent)
    /\ agg_out = AggIdle
    /\ rounds = <<>>
    /\ io_call = NoCall

\* forward, lines 10-20 and 28 up to the grouping: the dendrite answers and
\* at least one response carries a paper_id.
ForwardQuery ==
    /\ pc = "start"
    /\ \E uids \in UidSamples :
         \E resp \in ResponseLists(Len(uids)) :
            /\ Valid(resp) > 0
            /\ miner_uids' = uids
            /\ responses' = resp
            /\ groups' = reviews_by_paper(resp)
            /\ all_rewards' = Zeros(Len(resp))
    /\ pc' = "group"
    /\ UNCHANGED <<cache, oracle_calls, paper_metadata, g, j, abstract, scores,
                   ranked, log, handed, update_call, agg_in, agg_out,
                   rounds, io_call>>

\* forward, lines 22-25: no valid review, nothing is scored.
ForwardSkip ==
    /\ pc = "start"
    /\ \E uids \in UidSamples :
         \E resp \in ResponseLists(Len(uids)) :
            /\ Valid(resp) = 0
            /\ miner_uids' = uids
            /\ responses' = resp
    /\ pc' = "skipped"
    /\ UNCHANGED <<cache, oracle_calls, paper_metadata, groups, g, j, abstract,
                   scores, ranked, all_rewards, log, handed, update_call,
                   agg_in, agg_out,
                   rounds, io_call>>

\* score_reviews_grouped, lines 239-245: the next item and its context.
EnterGroup ==
    /\ pc = "group"
    /\ g < Len(groups)
    /\ g' = g + 1
    /\ j' = 1
    /\ abstract' = ResolveContext(LoadMetadata(paper_metadata),
                                  groups[g + 1].paper_id)
    /\ handed' = Append(handed, [paper_id |-> groups[g + 1].paper_id,
                                 context  |-> abstract'])
    /\ scores' = <<>>
    /\ ranked' = <<>>
    /\ pc' = "scoring"
    /\ UNCHANGED <<cache, oracle_calls, paper_metadata, miner_uids, responses,
                   groups, all_rewards, log, update_call, agg_in, agg_out,
                   rounds, io_call>>

\* score_reviews_for_paper, lines 195-206: one review of the item.
ScoreNext ==
    /\ pc = "scoring"
    /\ j <= Len(groups[g].reviews)
    /\ \E outcome \in OracleOutcomes :
         LET review == groups[g].reviews[j]
             r      == ScoreOne(cache, abstract, review, outcome)
         IN  /\ cache' = r.cache
             /\ oracle_calls' = oracle_calls + (IF r.invoked THEN 1 ELSE 0)
             /\ scores' = Append(scores, r.ret)
             /\ log' = IF r.called
                       THEN Append(log,
                              [miner_uid      |-> review.miner_uid,
                               paper_abstract |-> abstract,
                               review_text    |-> review.review_text,
                               hit            |-> r.hit,
                               invoked        |-> r.invoked,
                               outcome        |-> IF r.invoked THEN outcome
                                                  ELSE OracleRaises,
                               ret            |-> r.ret,
                               cached_after   |->
                                   _get_cached(r.cache,
                                       _cache_key(abstract,
                                                  IF review.review_text = NoneVal
                                                  THEN ""
                                                  ELSE review.review_text)),
                               calls_before   |-> oracle_calls,
                               calls_after    |-> oracle_calls'])
                       ELSE log
    /\ j' = j + 1
    /\ UNCHANGED <<paper_metadata, pc, miner_uids, responses, groups, g,
                   abstract, ranked, all_rewards, handed, update_call,
                   agg_in, agg_out,
                   rounds, io_call>>

RankOf(order, idx) == CHOOSE k \in 0..(Len(order) - 1) : order[k + 1] = idx

\* A faulty write-back, for sensitivity checks:
\* final_score receives the verdict's aggregate_score, not the reward.
WriteBackAggregate(synapse, score, reward) ==
    [synapse EXCEPT !.review_score = score,
                    !.final_score  = score.aggregate_score * 10000]

\* synapse.review_score = scores[idx]; synapse.final_score = reward
WriteBack(synapse, score, reward) ==
    [synapse EXCEPT !.review_score = score, !.final_score = reward]

\* score_reviews_grouped, lines 249-262: rank the item's verdicts, compute
\* the decayed rewards and write verdict and reward back onto the synapses.
RankGroup ==
    /\ pc = "scoring"
    /\ j > Len(groups[g].reviews)
    /\ \E order \in Argsort([i \in 1..Len(scores) |-> scores[i].aggregate_score]) :
         LET ranked_indices == RankedIndices(order)
             paper_reviews  == groups[g].reviews
             IdxOf(pos)     == CHOOSE idx \in 1..Len(paper_reviews) :
                                   paper_reviews[idx].miner_uid + 1 = pos
             Mine(pos)      == \E idx \in 1..Len(paper_reviews) :
                                   paper_reviews[idx].miner_uid + 1 = pos
             RewardAt(pos)  == Reward(scores[IdxOf(pos)].aggregate_score,
                                      RankOf(ranked_indices, IdxOf(pos)),
                                      scores[IdxOf(pos)].confidence)
         IN  /\ ranked' = ranked_indices
             /\ all_rewards' = [pos \in 1..Len(all_rewards) |->
                                   IF Mine(pos) THEN RewardAt(pos)
                                   ELSE all_rewards[pos]]
             /\ responses' = [pos \in 1..Len(responses) |->
                                 IF Mine(pos)
                                 THEN WriteBack(responses[pos],
                                                scores[IdxOf(pos)],
                                                RewardAt(pos))
                                 ELSE responses[pos]]
    /\ pc' = IF g = Len(groups) THEN "normalize" ELSE "group"
    /\ UNCHANGED <<cache, oracle_calls, paper_metadata, miner_uids, groups, g,
                   j, abstract, scores, log, handed, update_call, agg_in,
                   agg_out,
                   rounds, io_call>>

\* score_reviews_grouped, lines 264-268, and forward, lines 28-30: normalise,
\* return (all_rewards, miner_uids) and hand both to update_scores.
Finish ==
    /\ pc = "normalize"
    /\ update_call' = [called  |-> TRUE,
                       rewards |-> Normalize(all_rewards),
                       uids    |-> RangeList(Len(responses))]
    /\ pc' = "done"
    /\ UNCHANGED <<cache, oracle_calls, paper_metadata, miner_uids, responses,
                   groups, g, j, abstract, scores, ranked, all_rewards, log,
                   handed, agg_in, agg_out,
                   rounds, io_call>>

(***************************************************************************)
(* The aggregator on its own: _validate_and_aggregate applied to one raw   *)
(* oracle response object.                                                 *)
(***************************************************************************)
\* The response objects the aggregator is applied to: every combination of
\* the criterion values with each confidence value, and objects with one
\* field that is not a JSON number.
AggInputs(critVals, confVals) ==
    {[f \in Fields |-> IF f = "confidence" THEN cf ELSE cr[f]] :
        cr \in [CriteriaSet -> critVals], cf \in confVals}
    \cup
    {[r EXCEPT ![f] = b] :
        r \in {Uniform(n, cf) : n \in {0, 3, MaxRaw}, cf \in confVals},
        f \in Fields,
        b \in {Null, BadStr, NaN, NumStr(3)}}

InitAgg ==
    /\ cache = <<>>
    /\ oracle_calls = 0
    /\ paper_metadata = NoMetadataFile
    /\ pc = "agg"
    /\ miner_uids = <<>>
    /\ responses = <<>>
    /\ groups = <<>>
    /\ g = 0
    /\ j = 0
    /\ abstract = ""
    /\ scores = <<>>
    /\ ranked = <<>>
    /\ all_rewards = <<>>
    /\ log = <<>>
    /\ handed = <<>>
    /\ update_call = NoUpdate
    /\ agg_in \in AggInputs({Absent, Num(-1), Num(0), Num(3), Num(5), Num(MaxRaw)},
                           {Absent, Num(-5), Num(7), Num(15)})
    /\ agg_out = AggIdle
    /\ rounds = <<>>
    /\ io_call = NoCall

AggApply ==
    /\ pc = "agg"
    /\ ~agg_out.done
    /\ agg_out' = [done    |-> TRUE,
                   raised  |-> _validate_and_aggregate(agg_in).raised,
                   verdict |-> _validate_and_aggregate(agg_in).verdict]
    /\ UNCHANGED <<cache, oracle_calls, paper_metadata, pc, miner_uids,
                   responses, groups, g, j, abstract, scores, ranked,
                   all_rewards, log, handed, update_call, agg_in, rounds,
                   io_call>>

NextAgg == AggApply

SpecAgg == InitAgg /\ [][NextAgg]_vars

Next ==
    \/ ForwardQuery
    \/ ForwardSkip
    \/ EnterGroup
    \/ ScoreNext
    \/ RankGroup
    \/ Finish

Spec == Init /\ [][Next]_vars

(***************************************************************************)
(* Concurrent aggregation rounds.  Several rounds share one event loop and *)
(* one cache_dir.  score_review is a coroutine whose only suspension       *)
(* point is the await of the oracle request (line 141): the lookup before  *)
(* it and the try block's remainder after it each run without              *)
(* interruption, and any other round may run in between.                   *)
(***************************************************************************)
NumRounds == 2      \* rounds in flight at the same time
MaxCalls  == 2      \* score_review calls one round makes

Rounds == 1..NumRounds

\* The reviews the rounds score, all for the item whose context is "A".
ConcTexts == {"t1", "t2"}

IdleRound(n) ==
    [pc |-> "idle", review_text |-> "", cache_key |-> "", hit |-> FALSE,
     ret |-> NoVerdict, calls |-> n]

InitConc ==
    /\ cache = <<>>
    /\ oracle_calls = 0
    /\ paper_metadata = NoMetadataFile
    /\ pc = "conc"
    /\ miner_uids = <<>>
    /\ responses = <<>>
    /\ groups = <<>>
    /\ g = 0
    /\ j = 0
    /\ abstract = "A"
    /\ scores = <<>>
    /\ ranked = <<>>
    /\ all_rewards = <<>>
    /\ log = <<>>
    /\ handed = <<>>
    /\ update_call = NoUpdate
    /\ agg_in = Uniform(0, Absent)
    /\ agg_out = AggIdle
    /\ rounds = [t \in Rounds |-> IdleRound(0)]
    /\ io_call = NoCall

\* score_review, lines 127-131: the key is cached and the stored verdict is
\* returned.
LookupHit(t) ==
    /\ pc = "conc"
    /\ rounds[t].pc = "idle"
    /\ rounds[t].calls < MaxCalls
    /\ \E text \in ConcTexts :
         LET cache_key == _cache_key(abstract, text)
             cached    == _get_cached(cache, cache_key)
         IN  /\ cached.found
             /\ rounds' = [rounds EXCEPT ![t] =
                   [pc |-> "returned", review_text |-> text,
                    cache_key |-> cache_key, hit |-> TRUE,
                    ret |-> cached.value, calls |-> rounds[t].calls + 1]]
    /\ UNCHANGED <<cache, oracle_calls, paper_metadata, pc, miner_uids,
                   responses, groups, g, j, abstract, scores, ranked,
                   all_rewards, log, handed, update_call, agg_in, agg_out,
                   io_call>>

\* score_review, lines 127-141: the key is not cached; the request is sent
\* and the coroutine is suspended until the oracle answers.
LookupMiss(t) ==
    /\ pc = "conc"
    /\ rounds[t].pc = "idle"
    /\ rounds[t].calls < MaxCalls
    /\ \E text \in ConcTexts :
         LET cache_key == _cache_key(abstract, text)
             cached    == _get_cached(cache, cache_key)
         IN  /\ ~cached.found
             /\ rounds' = [rounds EXCEPT ![t] =
                   [pc |-> "awaiting", review_text |-> text,
                    cache_key |-> cache_key, hit |-> FALSE,
                    ret |-> NoVerdict, calls |-> rounds[t].calls + 1]]
    /\ oracle_calls' = oracle_calls + 1
    /\ UNCHANGED <<cache, paper_metadata, pc, miner_uids, responses, groups,
                   g, j, abstract, scores, ranked, all_rewards, log, handed,
                   update_call, agg_in, agg_out, io_call>>

\* score_review, lines 141-167: the oracle answers (or the request raises);
\* the coroutine resumes, stores a judgment and returns, or returns the
\* fallback.
OracleAnswers(t) ==
    /\ pc = "conc"
    /\ rounds[t].pc = "awaiting"
    /\ \E outcome \in OracleOutcomes :
         LET r == TryOracle(outcome)
         IN  /\ cache' = IF r.ok
                         THEN _save_cache(cache, rounds[t].cache_key, r.v)
                         ELSE cache
             /\ rounds' = [rounds EXCEPT ![t].pc = "returned", ![t].ret = r.v]
    /\ UNCHANGED <<oracle_calls, paper_metadata, pc, miner_uids, responses,
                   groups, g, j, abstract, scores, ranked, all_rewards, log,
                   handed, update_call, agg_in, agg_out, io_call>>

\* score_reviews_for_paper, lines 205-206: the verdict is appended and the
\* round goes on to its next review.
NextReview(t) ==
    /\ pc = "conc"
    /\ rounds[t].pc = "returned"
    /\ rounds' = [rounds EXCEPT ![t] = IdleRound(rounds[t].calls)]
    /\ UNCHANGED <<cache, oracle_calls, paper_metadata, pc, miner_uids,
                   responses, groups, g, j, abstract, scores, ranked,
                   all_rewards, log, handed, update_call, agg_in, agg_out,
                   io_call>>

NextConc ==
    \E t \in Rounds :
        \/ LookupHit(t)
        \/ LookupMiss(t)
        \/ OracleAnswers(t)
        \/ NextReview(t)

SpecConc == InitConc /\ [][NextConc]_vars

(***************************************************************************)
(* score_review on a cache_dir whose reads and writes can fail.  The       *)
(* lookup (lines 127-131) is outside the try block, so an error reading an *)
(* existing cache file leaves score_review as an exception; _save_cache    *)
(* (line 154) is inside it, so an error writing the file is caught by      *)
(* "except Exception" (line 158).                                          *)
(***************************************************************************)
\* What one file operation does: a read of an existing file succeeds or
\* raises; a write succeeds, raises in open() (nothing is written), or
\* raises in json.dump / close after open(.., "w") created the file.
ReadFaults  == {"ok", "fails"}
WriteFaults == {"ok", "open_fails", "dump_fails"}

\* The file a failed json.dump leaves behind: not a JSON document.
Truncated == [format |-> "truncated", doc |-> NoVerdict]

\* score_review with use_cache = True under the file faults io.  raised
\* tells that the call ended with an exception instead of a verdict.
score_review_io(c, paper_abstract, review_text, outcome, io) ==
    LET cache_key == _cache_key(paper_abstract, review_text)
        t         == TryOracle(outcome)
    IN  IF cache_key \in DOMAIN c
        THEN IF io.read = "fails" \/ c[cache_key].format # "json"
             THEN [raised |-> TRUE, ret |-> NoVerdict, cache |-> c,
                   invoked |-> FALSE]
             ELSE [raised |-> FALSE, ret |-> JsonLoad(c[cache_key]),
                   cache |-> c, invoked |-> FALSE]
        ELSE IF ~t.ok
        THEN [raised |-> FALSE, ret |-> t.v, cache |-> c, invoked |-> TRUE]
        ELSE IF io.write = "ok"
        THEN [raised |-> FALSE, ret |-> t.v,
              cache |-> _save_cache(c, cache_key, t.v), invoked |-> TRUE]
        ELSE [raised |-> FALSE, ret |-> Fallback("OSError"),
              cache |-> IF io.write = "dump_fails"
                        THEN (cache_key :> Truncated) @@ c
                        ELSE c,
              invoked |-> TRUE]

InitIO ==
    /\ cache = <<>>
    /\ oracle_calls = 0
    /\ paper_metadata = NoMetadataFile
    /\ pc = "io"
    /\ miner_uids = <<>>
    /\ responses = <<>>
    /\ groups = <<>>
    /\ g = 0
    /\ j = 0
    /\ abstract = "A"
    /\ scores = <<>>
    /\ ranked = <<>>
    /\ all_rewards = <<>>
    /\ log = <<>>
    /\ handed = <<>>
    /\ update_call = NoUpdate
    /\ agg_in = Uniform(0, Absent)
    /\ agg_out = AggIdle
    /\ rounds = <<>>
    /\ io_call = NoCall

\* One call of score_review, lines 121-167.
ScoreReviewIO ==
    /\ pc = "io"
    /\ \E text \in ConcTexts, outcome \in OracleOutcomes,
          rd \in ReadFaults, wr \in WriteFaults :
         LET r == score_review_io(cache, abstract, text, outcome,
                                  [read |-> rd, write |-> wr])
         IN  /\ cache' = r.cache
             /\ io_call' =
                  [done |-> TRUE, review_text |-> text,
                   outcome |-> IF r.invoked THEN outcome ELSE OracleRaises,
                   read    |-> IF r.invoked THEN "ok" ELSE rd,
                   write   |-> IF r.invoked /\ TryOracle(outcome).ok
                               THEN wr ELSE "ok",
                   existed |-> ~r.invoked,
                   raised  |-> r.raised,
                   ret     |-> r.ret]
    /\ UNCHANGED <<oracle_calls, paper_metadata, pc, miner_uids, responses,
                   groups, g, j, abstract, scores, ranked, all_rewards, log,
                   handed, update_call, agg_in, agg_out, rounds>>

NextIO == ScoreReviewIO

SpecIO == InitIO /\ [][NextIO]_vars

(***************************************************************************)
(* Properties.                                                             *)
(***************************************************************************)
SameInputs(a, b) ==
    a.paper_abstract = b.paper_abstract /\ a.review_text = b.review_text

\* The oracle answered with a JSON object whose present fields are numbers.
WellFormedAnswer(outcome) ==
    /\ outcome.kind = "json"
    /\ \A f \in Fields : outcome.result[f].k \in {"num", "absent"}

\* The oracle call failed: it raised, its content was not JSON, or a field
\* of the object could not be read as a number.
FailedAnswer(outcome) ==
    \/ outcome.kind \in {"raise", "unparseable"}
    \/ /\ outcome.kind = "json"
       /\ \E f \in Fields : outcome.result[f].k \in {"null", "str"}

InvokedFor(l, upto) ==
    Cardinality({i \in 1..upto : log[i].invoked /\ SameInputs(log[i], l)})

\* C1: cache round trip.  When a score_review call finds no record for its
\* (model, context, text), invokes the oracle and gets a well-formed answer,
\* the verdict is stored; the next score_review call, made with the same
\* inputs, does not invoke the oracle (one invocation over the two calls)
\* and returns the stored verdict, and so does every later call.
C1_CacheRoundTrip ==
    /\ \A i \in 1..(Len(log) - 1) :
         (/\ SameInputs(log[i], log[i + 1])
          /\ ~log[i].hit
          /\ WellFormedAnswer(log[i].outcome))
         => /\ log[i].invoked
            /\ log[i + 1].calls_after - log[i].calls_before = 1
            /\ ~log[i + 1].invoked
            /\ log[i].cached_after = [found |-> TRUE, value |-> log[i].ret]
            /\ log[i + 1].ret = log[i].ret
    /\ \A i, k \in 1..Len(log) :
         (/\ i < k
          /\ SameInputs(log[i], log[k])
          /\ ~log[i].hit
          /\ WellFormedAnswer(log[i].outcome))
         => /\ log[k].hit
            /\ log[k].ret = log[i].ret
            /\ InvokedFor(log[i], k) - InvokedFor(log[i], i - 1) = 1

C1_Witness ==
    \E i \in 1..(Len(log) - 1) :
        /\ SameInputs(log[i], log[i + 1])
        /\ ~log[i].hit
        /\ WellFormedAnswer(log[i].outcome)
        /\ log[i + 1].hit
        /\ log[i].calls_before = 0
        /\ oracle_calls = 1

EmptySubmission(pos) ==
    responses[pos].paper_id # NoneVal /\ Falsy(responses[pos].review_text)

\* C2: a submission whose text is empty or missing never reaches
\* score_review, so the oracle call count moves only with the calls made for
\* other submissions; its raw reward and its returned reward are 0.
C2_EmptyTextZero ==
    /\ oracle_calls = Cardinality({i \in 1..Len(log) : log[i].invoked})
    /\ \A pos \in 1..Len(responses) :
         Falsy(responses[pos].review_text)
         => /\ \A i \in 1..Len(log) : log[i].miner_uid # pos - 1
            /\ Len(all_rewards) = Len(responses) => all_rewards[pos] = 0
            /\ update_call.called => update_call.rewards[pos] = 0

C2_Witness ==
    /\ update_call.called
    /\ Len(groups) = 2
    /\ \A i \in 1..Len(groups[1].reviews) :
         Falsy(groups[1].reviews[i].review_text)
    /\ \E pos \in 1..Len(responses) :
         EmptySubmission(pos) /\ update_call.rewards[pos] = 0
    /\ \E pos \in 1..Len(responses) : update_call.rewards[pos] = 1000
    /\ oracle_calls = 1

IsFallback(v) ==
    /\ v.has_criteria
    /\ \A c \in CriteriaSet : v.crit[c] = 0
    /\ v.confidence = 0
    /\ v.aggregate_score = 0
    /\ v.error \notin {"", "<none>"}

\* C3: when the oracle call fails, score_review returns the fallback verdict
\* (six criteria 0, confidence 0.0, aggregate 0.0, error set), stores no
\* record under the key, and the next call with the same inputs invokes the
\* oracle again.
C3_FallbackNotCached ==
    \A i \in 1..Len(log) :
        (log[i].invoked /\ FailedAnswer(log[i].outcome))
        => /\ IsFallback(log[i].ret)
           /\ ~log[i].cached_after.found
           /\ \A k \in (i + 1)..Len(log) :
                (/\ SameInputs(log[i], log[k])
                 /\ \A m \in (i + 1)..(k - 1) : ~SameInputs(log[i], log[m]))
                => log[k].invoked /\ ~log[k].hit

C3_Witness ==
    \E i \in 1..(Len(log) - 1) :
        /\ log[i].invoked
        /\ log[i].outcome.kind = "raise"
        /\ SameInputs(log[i], log[i + 1])
        /\ log[i + 1].invoked
        /\ oracle_calls = 2

\* C4: the returned reward vector has one entry per response, each in
\* [0, 1]; when some raw reward is positive its maximum is exactly 1.0; when
\* every raw reward is 0 it is all zero.
C4_Normalized ==
    update_call.called
    => LET r == update_call.rewards
       IN  /\ Len(r) = Len(responses)
           /\ \A i \in 1..Len(r) : 0 <= r[i] /\ r[i] <= 1000
           /\ (\E i \in 1..Len(r) : all_rewards[i] > 0)
              => \E i \in 1..Len(r) : r[i] = 1000
           /\ (\A i \in 1..Len(r) : all_rewards[i] = 0)
              => \A i \in 1..Len(r) : r[i] = 0

C4_Witness ==
    /\ update_call.called
    /\ Len(groups) = 2
    /\ \E i, k \in 1..Len(responses) :
         /\ responses[i].paper_id # responses[k].paper_id
         /\ update_call.rewards[i] = 1000
         /\ update_call.rewards[k] > 0
         /\ update_call.rewards[k] < 1000
         /\ all_rewards[i] > 1000

Ranked == ranked # <<>>

\* C5: once an item group of size n is ranked, ranked_indices holds every
\* group index exactly once (rank k-1 goes to ranked_indices[k], so the
\* ranks are a permutation of 0..n-1), and a strictly higher aggregate_score
\* has a strictly lower rank.
C5_RankPermutation ==
    Ranked
    => LET n == Len(groups[g].reviews)
       IN  /\ Len(scores) = n
           /\ Len(ranked) = n
           /\ {ranked[k] : k \in 1..n} = 1..n
           /\ \A ka, kb \in 1..n :
                scores[ranked[ka]].aggregate_score
                    > scores[ranked[kb]].aggregate_score
                => ka < kb

C5_Witness ==
    /\ Ranked
    /\ ranked = <<3, 1, 2>>
    /\ scores[3].aggregate_score > scores[1].aggregate_score
    /\ scores[1].aggregate_score > scores[2].aggregate_score

\* C6: the ids returned with the rewards are the submitter ids: forward hands
\* update_scores one reward and one id per response, and the id at index i
\* is the UID of the miner that was queried for response i.
C6_IdsAreSubmitters ==
    update_call.called
    => /\ Len(update_call.rewards) = Len(responses)
       /\ Len(update_call.uids) = Len(responses)
       /\ \A i \in 1..Len(responses) : update_call.uids[i] = miner_uids[i]

\* C7: _validate_and_aggregate never raises, whatever the response object
\* holds.
C7_AggregatorNeverFails ==
    agg_out.done => ~agg_out.raised

Numeric(result) == \A f \in Fields : result[f].k \in {"num", "absent"}

Clamped(x, hi, missing) ==
    IF x.k = "absent" THEN missing
    ELSE IF x.v < 0 THEN 0 ELSE IF x.v > hi THEN hi ELSE x.v

\* C8: for a numeric response every criterion is clamped into [0, 5]
\* (missing: 0), confidence into [0, 1] (missing: 0.5), and aggregate_score
\* is the sum of clamped value * weight * 20 with weights 0.20, 0.25, 0.20,
\* 0.15, 0.15, 0.05: within [0, 100], 100 when every criterion is 5 or more,
\* 0 when every criterion is 0, below 0 or missing.
C8_ClampedAggregate ==
    (agg_out.done /\ Numeric(agg_in))
    => LET v == agg_out.verdict
       IN  /\ ~agg_out.raised
           /\ \A c \in CriteriaSet : v.crit[c] = Clamped(agg_in[c], 5, 0)
           /\ v.confidence = Clamped(agg_in["confidence"], 10, 5)
           /\ v.aggregate_score * 100 =
                  v.crit["comprehension"] * 20 * 20
                + v.crit["technical_depth"] * 25 * 20
                + v.crit["specificity"] * 20 * 20
                + v.crit["constructiveness"] * 15 * 20
                + v.crit["evidence_based"] * 15 * 20
                + v.crit["professionalism"] * 5 * 20
           /\ 0 <= v.aggregate_score /\ v.aggregate_score <= 100
           /\ (\A c \in CriteriaSet : agg_in[c].k = "num" /\ agg_in[c].v >= 5)
              => v.aggregate_score = 100
           /\ (\A c \in CriteriaSet : agg_in[c].k = "absent" \/ agg_in[c].v <= 0)
              => v.aggregate_score = 0

C8_Witness ==
    /\ agg_out.done
    /\ Numeric(agg_in)
    /\ agg_in["comprehension"] = Num(MaxRaw)
    /\ agg_in["technical_depth"] = Num(-1)
    /\ agg_in["specificity"] = Absent
    /\ agg_in["confidence"] = Num(15)
    /\ agg_out.verdict.aggregate_score = 32
    /\ agg_out.verdict.confidence = 10

\* C9: the context handed to the scorer is the stored abstract when it is
\* present and non-empty, otherwise the title when that is present and
\* non-empty, otherwise the placeholder; it is never empty.
C9_ContextPolicy ==
    \A i \in 1..Len(handed) :
        /\ handed[i].context =
               ContextPolicy(LoadMetadata(paper_metadata), handed[i].paper_id)
        /\ handed[i].context # ""

Decay == <<1000, 607, 368, 223, 135>>

Abs(x) == IF x < 0 THEN -x ELSE x

\* C10: in a ranked group the raw reward of the submission at rank k is
\* aggregate_score * exp(-0.5 k) * confidence, the factor at rank 0 being
\* exactly 1; one item with three submissions of aggregates 80, 60, 90 in
\* input order at confidence 1.0 ends with rewards 0.539, 0.245, 1.0 in
\* input order (tolerance 0.01).
C10_DecayedReward ==
    /\ Ranked
       => \A k \in 1..Len(ranked) :
            LET idx == ranked[k]
            IN  all_rewards[groups[g].reviews[idx].miner_uid + 1] =
                    scores[idx].aggregate_score * Decay[k]
                        * scores[idx].confidence
    /\ (/\ update_call.called
        /\ Len(responses) = 3
        /\ Len(groups) = 1
        /\ Len(scores) = 3
        /\ [i \in 1..3 |-> scores[i].aggregate_score] = <<80, 60, 90>>
        /\ \A i \in 1..3 : scores[i].confidence = 10)
       => /\ Abs(update_call.rewards[1] - 539) <= 10
          /\ Abs(update_call.rewards[2] - 245) <= 10
          /\ update_call.rewards[3] = 1000

C10_Witness ==
    /\ update_call.called
    /\ Len(responses) = 3
    /\ Len(groups) = 1
    /\ Len(scores) = 3
    /\ [i \in 1..3 |-> scores[i].aggregate_score] = <<80, 60, 90>>
    /\ \A i \in 1..3 : scores[i].confidence = 10
    /\ update_call.rewards = <<539, 245, 1000>>

\* C11: ties are broken by input order: once a group is ranked, of two
\* submissions of the group with equal aggregate_score the one earlier in
\* the input list has the lower rank.
C11_StableTieBreak ==
    Ranked
    => \A a, b \in 1..Len(scores) :
         (/\ a < b
          /\ scores[a].aggregate_score = scores[b].aggregate_score)
         => RankOf(ranked, a) < RankOf(ranked, b)

\* The verdict score_reviews_for_paper produced for the response at pos: the
\* empty-review verdict, or what score_review returned for it.
VerdictFor(pos) ==
    IF Falsy(responses[pos].review_text)
    THEN EmptyVerdict
    ELSE LET i == CHOOSE i \in 1..Len(log) : log[i].miner_uid = pos - 1
         IN  log[i].ret

HasItem(pos) == responses[pos].paper_id # NoneVal

\* The largest final_score written in the call, 0 when there is none.
MaxFinal ==
    SeqMax([pos \in 1..Len(responses) |->
               IF HasItem(pos) THEN responses[pos].final_score ELSE 0])

\* C12 as stated: after the call every submission with an item id carries in
\* final_score the value at its index in the returned reward vector
\* (final_score in units of 1/10000, the vector in thousandths; equal up to
\* the last thousandth).
C12_FinalIsReturned ==
    update_call.called
    => \A pos \in 1..Len(responses) :
         HasItem(pos)
         => Abs(responses[pos].final_score - 10 * update_call.rewards[pos])
                < 10

\* C12, amended: after the call every submission with an item id carries
\* its verdict in review_score and its reward before normalisation,
\* aggregate_score * exp(-0.5 rank) * confidence for a rank of its group, in
\* final_score; the returned vector holds at its index that reward divided
\* by the largest reward of the call when that is positive, and the reward
\* itself (zero) otherwise; a submission with no item id keeps review_score
\* and final_score as they were (None).
C12_WriteBack ==
    update_call.called
    => \A pos \in 1..Len(responses) :
         LET syn == responses[pos]
         IN  IF HasItem(pos)
             THEN /\ syn.review_score = VerdictFor(pos)
                  /\ \E k \in 1..Len(responses) :
                       syn.final_score =
                           syn.review_score.aggregate_score * Decay[k]
                               * syn.review_score.confidence
                  /\ update_call.rewards[pos] =
                         IF MaxFinal > 0
                         THEN (syn.final_score * 1000) \div MaxFinal
                         ELSE syn.final_score
             ELSE /\ syn.review_score = NoVerdict
                  /\ syn.final_score = NoneScore

C12_Witness ==
    /\ update_call.called
    /\ \E a, b, c \in 1..Len(responses) :
         /\ ~HasItem(a)
         /\ HasItem(b)
         /\ HasItem(c)
         /\ responses[b].final_score > responses[c].final_score
         /\ responses[c].final_score > 0
         /\ responses[c].final_score
                < responses[c].review_score.aggregate_score * 1000
                      * responses[c].review_score.confidence
         /\ update_call.rewards[b] = 1000
         /\ update_call.rewards[c] < 1000
         /\ update_call.rewards[a] = 0

\* C13: cache entries are write-once, also with concurrent rounds: a
\* verdict stored under a key is never removed and never replaced by a
\* different verdict.
C13_WriteOnce ==
    [][\A k \in DOMAIN cache :
           k \in DOMAIN cache' /\ cache'[k] = cache[k]]_vars

\* C14: a cache failure never changes a judgment: when the oracle was
\* called and answered with a well-formed object, score_review returns the
\* aggregator's verdict for that object whether or not the cache record
\* could be written; and a call that failed reading the cache does not
\* report the oracle-failure fallback verdict.
C14_CacheFailureKeepsJudgment ==
    io_call.done
    => /\ (~io_call.existed /\ WellFormedAnswer(io_call.outcome))
          => /\ ~io_call.raised
             /\ io_call.ret =
                    _validate_and_aggregate(io_call.outcome.result).verdict
       /\ (io_call.existed /\ io_call.raised) => ~IsFallback(io_call.ret)

====
